---- MODULE Spec2Model ----
(***************************************************************************)
(* Model of InsuranceManager (src/insurance/app.py): the in-memory store   *)
(* of policyholders and claims, its ingestion from data.json and from      *)
(* Insurance_auto_data.csv, the three validated mutations, the snapshot    *)
(* writer, and the high-risk report.                                       *)
(*                                                                         *)
(* Identifiers are strings.  Dates are day numbers.  Amounts are integers. *)
(* A dict is a function whose DOMAIN is the set of keys.  The lists        *)
(* written to data.json are kept as sets of records: every object of the   *)
(* store carries its own id (a fresh uuid4, a loaded id or a CLAIM_ID      *)
(* that is also its key), so no two entries of a list share an id and the  *)
(* order of the list decides nothing in load_data.                         *)
(***************************************************************************)
EXTENDS Integers, Sequences, FiniteSets, TLC

VARIABLES
    pc,            \* "down": no process; "load_csv": inside load_csv_data; "up": idle;
                   \* "replied": a call has returned or raised and its caller holds the result
    policyholders, \* self.policyholders: key -> Policyholder
    claims,        \* self.claims: key -> Claim
    file,          \* data.json
    rowsRead,      \* rows the csv.DictReader has yielded in this run
    now,           \* datetime.now(), in days
    uuids,         \* uuid4 values drawn so far
    starts,        \* processes started so far
    result,        \* the last operation: its name, arguments and outcome
    prior,         \* history: data.json as it was before the latest save_data that failed
    wasApproved    \* history: claims seen Approved by update_claim_status since they were last loaded

vars == <<pc, policyholders, claims, file, rowsRead, now, uuids, starts,
          result, prior, wasApproved>>

----------------------------------------------------------------------------
(* Bounds of the model *)

MaxUuids == 2
MaxRows == 2
MaxStarts == 2
MaxTicks == 1
DaysSinceCsv == 83

(* Constants of the program *)

MinAge == 18
MaxAge == 100
MaxSumInsured == 10000000
MaxReasonLen == 500
DefaultAge == 30
DefaultSumInsured == 100000
SumInsuredFactor == 2
Year == 365
RecentLimit == 3
RejectedLimit == 2
RatioNum == 4
RatioDen == 5

----------------------------------------------------------------------------
(* Values *)

Uuid(n) == "uuid-" \o ToString(n)

PolicyTypes == {"Health", "Vehicle", "Life"}
Statuses == {"Pending", "Approved", "Rejected"}

Letters == {"J", "a", "D"}
Whitespace == {" "}

RECURSIVE Pad(_)
Pad(n) ==
    IF n = 0 THEN ""
    ELSE LET half == Pad(n \div 2)
         IN  IF n % 2 = 0 THEN half \o half ELSE half \o half \o "x"

EmptyDict == [k \in {} |-> {}]
Put(d, k, v) == [x \in (DOMAIN d) \cup {k} |-> IF x = k THEN v ELSE d[x]]
Values(d) == {d[k] : k \in DOMAIN d}

RECURSIVE SumOf(_, _)
SumOf(d, keys) ==
    IF keys = {} THEN 0
    ELSE LET k == CHOOSE x \in keys : TRUE
         IN  d[k].claim_amount + SumOf(d, keys \ {k})

Policyholder(id, name, age, policy_type, sum_insured) ==
    [id |-> id, name |-> name, age |-> age, policy_type |-> policy_type,
     sum_insured |-> sum_insured]

Claim(id, policyholder_id, claim_amount, reason, status, date) ==
    [id |-> id, policyholder_id |-> policyholder_id, claim_amount |-> claim_amount,
     reason |-> reason, status |-> status, date |-> date]

NoResult == [op |-> "none", args |-> <<>>, outcome |-> "ok", ret |-> ""]
Outcome(op, args, outcome, ret) == [op |-> op, args |-> args, outcome |-> outcome, ret |-> ret]

----------------------------------------------------------------------------
(* data.json *)

NoFile == [kind |-> "absent"]
Partial == [kind |-> "partial"]

\* datetime.isoformat and datetime.fromisoformat: the text of a date, and the
\* date a text denotes
IsoFormat(d) == ToString(d)
FromIsoFormat(s) == CHOOSE d \in 0..(517 + DaysSinceCsv + MaxTicks * Year) : ToString(d) = s

PolicyholderJson(ph) ==
    [id |-> ph.id, name |-> ph.name, age |-> ph.age, policy_type |-> ph.policy_type,
     sum_insured |-> ph.sum_insured]

ClaimJson(c) ==
    [id |-> c.id, policyholder_id |-> c.policyholder_id, claim_amount |-> c.claim_amount,
     reason |-> c.reason, status |-> c.status, date |-> IsoFormat(c.date)]

\* the document save_data hands to json.dump
SnapshotOf(phs, cls) ==
    [kind |-> "json",
     policyholders |-> {PolicyholderJson(ph) : ph \in Values(phs)},
     claims |-> {ClaimJson(c) : c \in Values(cls)}]

\* load_data into the empty dicts of __init__: a missing file loads nothing, and
\* a file json.load cannot parse raises JSONDecodeError before any record is stored
LoadedPolicyholders(f) ==
    IF f.kind # "json" THEN EmptyDict
    ELSE [i \in {r.id : r \in f.policyholders} |->
            LET r == CHOOSE x \in f.policyholders : x.id = i
            IN  Policyholder(r.id, r.name, r.age, r.policy_type, r.sum_insured)]

LoadedClaims(f) ==
    IF f.kind # "json" THEN EmptyDict
    ELSE [i \in {r.id : r \in f.claims} |->
            LET r == CHOOSE x \in f.claims : x.id = i
            IN  Claim(r.id, r.policyholder_id, r.claim_amount, r.reason, r.status,
                      FromIsoFormat(r.date))]

\* save_data: the file is rewritten in place.  open(..., "w") may fail (the file
\* stays as it was) and a write may fail after the truncation (the file is left
\* cut short); both IOErrors are caught and only printed.
IoOutcomes == {"ok", "open_fails", "write_fails"}

save_data(phs, cls, io) ==
    /\ io = "ok" => file' = SnapshotOf(phs, cls) /\ prior' = prior
    /\ io = "open_fails" => file' = file /\ prior' = file
    /\ io = "write_fails" => file' = Partial /\ prior' = file

----------------------------------------------------------------------------
(* Insurance_auto_data.csv *)

CustomerIds == {"C1", "C2"}
ClaimIds == {"K1", "K2"}
AmountFields == {"", "10", "50", "abc"}
DateFields == {"2024-06-01", "01/06/2024"}
PaidFields == {"", "10"}
RemarkFields == {"", "fraud"}

Rows ==
    [CUSTOMER_ID : CustomerIds, CLAIM_ID : ClaimIds, CLAIM_AMOUNT : AmountFields,
     CLAIM_DATE : DateFields, PAID_AMOUNT : PaidFields, REJECTION_REMARKS : RemarkFields]

\* float(s): the number a numeric field denotes; any other text raises ValueError
IsFloat(s) == s \in {"10", "50"}
Float(s) == CASE s = "10" -> 10 [] s = "50" -> 50

\* datetime.strptime(s, "%Y-%m-%d"), in days since 2023-01-01; any other text raises ValueError
IsDate(s) == s \in {"2024-06-01"}
StrpTime(s) == CASE s = "2024-06-01" -> 517

\* datetime.now() when the first process starts
StartDay == StrpTime("2024-06-01") + DaysSinceCsv

\* f"Customer {customer_id}"
CustomerName(customer_id) == <<"Customer", " ", customer_id>>

\* line 75
DefaultSum(row) ==
    IF row.CLAIM_AMOUNT # "" THEN Float(row.CLAIM_AMOUNT) * SumInsuredFactor
    ELSE DefaultSumInsured

RowStatus_PaidFirst(row) ==
    IF row.PAID_AMOUNT # "" THEN "Approved"
    ELSE IF row.REJECTION_REMARKS # "" THEN "Rejected"
    ELSE "Pending"

\* line 86
RowStatus(row) ==
    IF row.REJECTION_REMARKS # "" THEN "Rejected"
    ELSE IF row.PAID_AMOUNT # "" THEN "Approved"
    ELSE "Pending"

\* line 82
RowReason(row) ==
    IF row.REJECTION_REMARKS # "" THEN row.REJECTION_REMARKS ELSE "Vehicle damage"

\* lines 70-76: the dict after the "create policyholder if not exists" step
WithCustomer(phs, row, uuid) ==
    IF row.CUSTOMER_ID \in DOMAIN phs THEN phs
    ELSE Put(phs, row.CUSTOMER_ID,
             Policyholder(uuid, CustomerName(row.CUSTOMER_ID), DefaultAge, "Vehicle",
                          DefaultSum(row)))

\* lines 79-87: the claim of a row, stored under CLAIM_ID
RowClaim(row) ==
    Claim(row.CLAIM_ID, row.CUSTOMER_ID, Float(row.CLAIM_AMOUNT), RowReason(row),
          RowStatus(row), StrpTime(row.CLAIM_DATE))

----------------------------------------------------------------------------
(* Startup: InsuranceManager.__init__ *)

Init ==
    /\ pc = "down"
    /\ policyholders = EmptyDict
    /\ claims = EmptyDict
    /\ file = NoFile
    /\ rowsRead = 0
    /\ now = StartDay
    /\ uuids = 0
    /\ starts = 0
    /\ result = NoResult
    /\ prior = NoFile
    /\ wasApproved = {}

\* __init__ up to the open() of load_csv_data: load_data fills the empty dicts;
\* then the CSV either opens, or is missing and the IOError ends load_csv_data
\* before any row and before its save_data.
Start ==
    /\ pc = "down"
    /\ starts < MaxStarts
    /\ starts' = starts + 1
    /\ policyholders' = LoadedPolicyholders(file)
    /\ claims' = LoadedClaims(file)
    /\ rowsRead' = 0
    /\ wasApproved' = {}
    /\ result' = Outcome("load_data", <<>>,
                         IF file.kind = "partial" THEN "JSONDecodeError" ELSE "ok", "")
    /\ pc' \in {"load_csv", "up"}
    /\ UNCHANGED <<file, now, uuids, prior>>

\* one iteration of "for row in reader" (lines 67-87)
CsvRow(row) ==
    /\ pc = "load_csv"
    /\ rowsRead < MaxRows
    /\ row.CUSTOMER_ID \notin DOMAIN policyholders => uuids < MaxUuids
    /\ IF row.CLAIM_AMOUNT # "" /\ ~IsFloat(row.CLAIM_AMOUNT)
       THEN \* float() raises at line 75 or 81: the import is abandoned
            /\ pc' = "up"
            /\ result' = Outcome("load_csv_data", row, "ValueError", "")
            /\ UNCHANGED <<policyholders, claims, uuids, rowsRead, wasApproved>>
       ELSE /\ policyholders' = WithCustomer(policyholders, row, Uuid(uuids + 1))
            /\ uuids' = IF row.CUSTOMER_ID \in DOMAIN policyholders THEN uuids ELSE uuids + 1
            /\ IF row.CLAIM_AMOUNT = ""
               THEN /\ pc' = pc
                    /\ rowsRead' = rowsRead + 1
                    /\ result' = Outcome("load_csv_data", row, "ok", "")
                    /\ UNCHANGED <<claims, wasApproved>>
               ELSE IF ~IsDate(row.CLAIM_DATE)
               THEN \* strptime raises at line 85, after the policyholder was stored
                    /\ pc' = "up"
                    /\ result' = Outcome("load_csv_data", row, "ValueError", "")
                    /\ UNCHANGED <<claims, rowsRead, wasApproved>>
               ELSE /\ pc' = pc
                    /\ rowsRead' = rowsRead + 1
                    /\ claims' = Put(claims, row.CLAIM_ID, RowClaim(row))
                    /\ wasApproved' = wasApproved \ {row.CLAIM_ID}
                    /\ result' = Outcome("load_csv_data", row, "ok", "")
    /\ UNCHANGED <<file, now, starts, prior>>

\* the reader is exhausted: line 88
CsvEnd(io) ==
    /\ pc = "load_csv"
    /\ pc' = "up"
    /\ save_data(policyholders, claims, io)
    /\ result' = Outcome("save_data", <<>>, "ok", "")
    /\ UNCHANGED <<policyholders, claims, rowsRead, now, uuids, starts, wasApproved>>

----------------------------------------------------------------------------
(* Validation and mutation *)

ValidName == <<"J", "a", " ", "D">>

\* (name, age, policy_type, sum_insured) of the add_policyholder calls
PolicyholderInputs ==
    { <<ValidName, MinAge, "Health", 10>>,
      <<ValidName, MaxAge, "Vehicle", MaxSumInsured>>,
      <<ValidName, DefaultAge, "Life", 10>>,
      << <<>>, DefaultAge, "Health", 10>>,
      << <<"J", "4">>, DefaultAge, "Health", 10>>,
      <<ValidName, MinAge - 1, "Health", 10>>,
      <<ValidName, MaxAge + 1, "Health", 10>>,
      <<ValidName, DefaultAge, "Travel", 10>>,
      <<ValidName, DefaultAge, "Health", 0>>,
      <<ValidName, DefaultAge, "Health", -10>>,
      <<ValidName, DefaultAge, "Health", MaxSumInsured + 1>> }

AmountInputs == {-1, 0, 10, 20, 21}
ReasonInputs == {"", "surgery", Pad(MaxReasonLen), Pad(MaxReasonLen + 1)}
StatusInputs == Statuses \cup {"Closed"}
UnknownId == "nobody"

\* line 113: not name or not re.match(r"^[A-Za-z\s]+$", name)
NameValid(name) ==
    /\ Len(name) > 0
    /\ \A i \in 1..Len(name) : name[i] \in Letters \cup Whitespace

AgeValid_Exclusive(age) == ~(age <= MinAge \/ age >= MaxAge)

\* line 115
AgeValid(age) == ~(age < MinAge \/ age > MaxAge)

\* line 117
PolicyTypeValid(policy_type) == policy_type \in PolicyTypes

\* line 119
SumInsuredValid(sum_insured) == ~(sum_insured <= 0 \/ sum_insured > MaxSumInsured)

\* lines 113-120: the message of the first check that fails, "ok" when none does
PolicyholderCheck(name, age, policy_type, sum_insured) ==
    IF ~NameValid(name) THEN "Invalid name (letters and spaces only)"
    ELSE IF ~AgeValid(age) THEN "Age must be between 18 and 100"
    ELSE IF ~PolicyTypeValid(policy_type) THEN "Invalid policy type"
    ELSE IF ~SumInsuredValid(sum_insured) THEN "Sum insured must be between 1 and 10,000,000"
    ELSE "ok"

\* line 147 moved above the check of line 145
Raise_AfterAssign(op, args, message) ==
    /\ result' = Outcome(op, args, message, "")
    /\ claims' = IF message = "Cannot revert Approved to Pending"
                 THEN [claims EXCEPT ![args[1]].status = args[2]]
                 ELSE claims
    /\ UNCHANGED <<policyholders, uuids, file, prior, wasApproved>>

\* a mutation raised ValueError(message) from one of its checks: the statements
\* after the raise did not run
Raise(op, args, message) ==
    /\ result' = Outcome(op, args, message, "")
    /\ UNCHANGED <<policyholders, claims, uuids, file, prior, wasApproved>>

add_policyholder(name, age, policy_type, sum_insured, io) ==
    LET check == PolicyholderCheck(name, age, policy_type, sum_insured)
        args == <<name, age, policy_type, sum_insured>>
        id == Uuid(uuids + 1)
    IN  /\ pc = "up"
        /\ pc' = "replied"
        /\ IF check # "ok"
           THEN Raise("add_policyholder", args, check)
           ELSE /\ uuids < MaxUuids
                /\ uuids' = uuids + 1
                /\ policyholders' =
                       Put(policyholders, id,
                           Policyholder(id, name, age, policy_type, sum_insured))
                /\ save_data(policyholders', claims, io)
                /\ result' = Outcome("add_policyholder", args, "ok", id)
                /\ UNCHANGED <<claims, wasApproved>>
        /\ UNCHANGED <<rowsRead, now, starts>>

AmountValid_Strict(claim_amount, sum_insured) ==
    ~(claim_amount <= 0 \/ claim_amount >= sum_insured)

\* line 130
AmountValid(claim_amount, sum_insured) == ~(claim_amount <= 0 \/ claim_amount > sum_insured)

\* line 132: not reason or len(reason) > 500
ReasonValid(reason) == ~(reason = "" \/ Len(reason) > MaxReasonLen)

\* lines 128-133
ClaimCheck(policyholder_id, claim_amount, reason) ==
    IF policyholder_id \notin DOMAIN policyholders THEN "Policyholder not found"
    ELSE IF ~AmountValid(claim_amount, policyholders[policyholder_id].sum_insured)
    THEN "Invalid claim amount (must be positive and not exceed sum insured)"
    ELSE IF ~ReasonValid(reason) THEN "Reason must be non-empty and less than 500 characters"
    ELSE "ok"

add_claim(policyholder_id, claim_amount, reason, io) ==
    LET check == ClaimCheck(policyholder_id, claim_amount, reason)
        args == <<policyholder_id, claim_amount, reason>>
        id == Uuid(uuids + 1)
    IN  /\ pc = "up"
        /\ pc' = "replied"
        /\ IF check # "ok"
           THEN Raise("add_claim", args, check)
           ELSE /\ uuids < MaxUuids
                /\ uuids' = uuids + 1
                /\ claims' = Put(claims, id,
                                 Claim(id, policyholder_id, claim_amount, reason, "Pending", now))
                /\ save_data(policyholders, claims', io)
                /\ result' = Outcome("add_claim", args, "ok", id)
                /\ UNCHANGED <<policyholders, wasApproved>>
        /\ UNCHANGED <<rowsRead, now, starts>>

IllegalRevert_FromApproved(current, status) == current = "Approved" /\ status # "Approved"

IllegalRevert_Reversed(current, status) == current = "Pending" /\ status = "Approved"

\* line 145
IllegalRevert(current, status) == current = "Approved" /\ status = "Pending"

\* lines 141-146
StatusCheck(claim_id, status) ==
    IF claim_id \notin DOMAIN claims THEN "Claim not found"
    ELSE IF status \notin Statuses THEN "Invalid status"
    ELSE IF IllegalRevert(claims[claim_id].status, status)
    THEN "Cannot revert Approved to Pending"
    ELSE "ok"

update_claim_status(claim_id, status, io) ==
    LET check == StatusCheck(claim_id, status)
        args == <<claim_id, status>>
    IN  /\ pc = "up"
        /\ pc' = "replied"
        /\ IF check # "ok"
           THEN Raise("update_claim_status", args, check)
           ELSE /\ claims' = [claims EXCEPT ![claim_id].status = status]
                /\ save_data(policyholders, claims', io)
                /\ wasApproved' =
                       IF "Approved" \in {claims[claim_id].status, status}
                       THEN wasApproved \cup {claim_id} ELSE wasApproved
                /\ result' = Outcome("update_claim_status", args, "ok", "")
                /\ UNCHANGED <<policyholders, uuids>>
        /\ UNCHANGED <<rowsRead, now, starts>>

----------------------------------------------------------------------------
(* Queries *)

\* lines 221-229, for a key of the store
get_policyholder(phs, policyholder_id) ==
    LET ph == phs[policyholder_id]
    IN  [id |-> ph.id, name |-> ph.name, age |-> ph.age, policy_type |-> ph.policy_type,
         sum_insured |-> ph.sum_insured]

\* line 161: the claims the report attributes to a policyholder object
ClaimsOf(ph) == {c \in DOMAIN claims : claims[c].policyholder_id = ph.id}

\* lines 158, 162
RecentOf(cs) == {c \in cs : claims[c].date >= now - Year}

\* line 163
RejectedOf(cs) == {c \in cs : claims[c].status = "Rejected"}

\* line 164
ApprovedTotal(cs) == SumOf(claims, {c \in cs : claims[c].status = "Approved"})

\* line 165-166: total / sum_insured > 0.8, the ratio taken as 0 when sum_insured <= 0
RatioHigh(total, sum_insured) ==
    sum_insured > 0 /\ total * RatioDen > RatioNum * sum_insured

\* lines 160-171: the keys whose policyholder the report lists
get_high_risk_policyholders ==
    {k \in DOMAIN policyholders :
        LET ph == policyholders[k]
            cs == ClaimsOf(ph)
        IN  \/ Cardinality(RecentOf(cs)) > RecentLimit
            \/ RatioHigh(ApprovedTotal(cs), ph.sum_insured)
            \/ Cardinality(RejectedOf(cs)) > RejectedLimit}

----------------------------------------------------------------------------
(* Environment *)

\* a year passes
Tick ==
    /\ pc \in {"up", "down"}
    /\ now + Year <= StartDay + MaxTicks * Year
    /\ now' = now + Year
    /\ result' = NoResult
    /\ UNCHANGED <<pc, policyholders, claims, file, rowsRead, uuids, starts, prior,
                   wasApproved>>

\* the process dies: the dicts are lost, data.json stays
Crash ==
    /\ pc # "down"
    /\ pc' = "down"
    /\ policyholders' = EmptyDict
    /\ claims' = EmptyDict
    /\ wasApproved' = {}
    /\ rowsRead' = 0
    /\ result' = NoResult
    /\ UNCHANGED <<file, now, uuids, starts, prior>>

\* the caller has read the result of its call
Reply ==
    /\ pc = "replied"
    /\ pc' = "up"
    /\ result' = NoResult
    /\ UNCHANGED <<policyholders, claims, file, rowsRead, now, uuids, starts, prior,
                   wasApproved>>

----------------------------------------------------------------------------
(* Specifications *)

\* rows of the service specification: one customer, one claim id
ServiceRows ==
    {r \in Rows : /\ r.CUSTOMER_ID = "C1"
                  /\ r.CLAIM_ID = "K1"
                  /\ r.CLAIM_DATE = "2024-06-01"
                  /\ \/ r.CLAIM_AMOUNT = "10" /\ r.REJECTION_REMARKS = ""
                     \/ r.CLAIM_AMOUNT = "" /\ r.PAID_AMOUNT = "" /\ r.REJECTION_REMARKS = ""}

\* The service: one process, started from an empty directory or from a CSV, then
\* called without I/O failures.
Next ==
    \/ Start
    \/ \E row \in ServiceRows : CsvRow(row)
    \/ CsvEnd("ok")
    \/ \E in \in PolicyholderInputs : add_policyholder(in[1], in[2], in[3], in[4], "ok")
    \/ \E p \in (DOMAIN policyholders) \cup {UnknownId}, a \in AmountInputs, r \in ReasonInputs :
          add_claim(p, a, r, "ok")
    \/ \E c \in (DOMAIN claims) \cup {UnknownId}, s \in StatusInputs :
          update_claim_status(c, s, "ok")
    \/ Reply

Spec == Init /\ [][Next]_vars

\* The import alone: one process reads a CSV of any rows and writes the snapshot.
NextImport ==
    \/ Start
    \/ \E row \in Rows : CsvRow(row)
    \/ CsvEnd("ok")

SpecImport == Init /\ [][NextImport]_vars

\* The life of the data directory: processes start, import, register, fail to
\* write, die and start again, while time passes.
LifeRows ==
    {r \in Rows : /\ r.CUSTOMER_ID = "C1"
                  /\ r.CLAIM_ID = "K1"
                  /\ r.CLAIM_AMOUNT = "10"
                  /\ r.CLAIM_DATE = "2024-06-01"
                  /\ r.REJECTION_REMARKS = ""}

NextLife ==
    \/ Start
    \/ \E row \in LifeRows : CsvRow(row)
    \/ \E io \in IoOutcomes : CsvEnd(io)
    \/ \E io \in IoOutcomes : add_policyholder(ValidName, MinAge, "Health", 10, io)
    \/ \E p \in DOMAIN policyholders : add_claim(p, 10, "surgery", "ok")
    \/ \E c \in DOMAIN claims, st \in Statuses : update_claim_status(c, st, "ok")
    \/ Reply
    \/ Tick
    \/ Crash

SpecLife == Init /\ [][NextLife]_vars

----------------------------------------------------------------------------
(* Properties *)

MutationOps == {"add_policyholder", "add_claim", "update_claim_status"}

PolicyholderValidationErrors ==
    {"Invalid name (letters and spaces only)", "Age must be between 18 and 100",
     "Invalid policy type", "Sum insured must be between 1 and 10,000,000"}

ClaimValidationErrors ==
    {"Invalid claim amount (must be positive and not exceed sum insured)",
     "Reason must be non-empty and less than 500 characters"}

\* C1: a call of add_policyholder, add_claim or update_claim_status that raises
\* leaves both dicts (every claim's status included) and data.json exactly as
\* they were before the call.
C1_FailedMutationLeavesState ==
    [][(result'.op \in MutationOps /\ result'.outcome # "ok")
         => /\ policyholders' = policyholders
            /\ claims' = claims
            /\ file' = file]_vars

\* a claim submission was refused for its amount while the store held claims
\* and a snapshot was on disk
C1_Witness ==
    /\ result.op = "add_claim"
    /\ result.outcome = "Invalid claim amount (must be positive and not exceed sum insured)"
    /\ DOMAIN claims # {}
    /\ file.kind = "json"

\* C2: for an existing claim and a target in the enum, update_claim_status
\* fails exactly when the claim is Approved and the target is Pending, and a
\* call that succeeds leaves the claim with the target status; an unknown claim
\* id or a target outside the enum always fails.
C2_StatusTransitions ==
    [][result'.op = "update_claim_status"
         => LET claim_id == result'.args[1]
                status == result'.args[2]
                failed == result'.outcome # "ok"
            IN  IF claim_id \notin DOMAIN claims \/ status \notin {"Pending", "Approved", "Rejected"}
                THEN failed
                ELSE /\ failed <=> (claims[claim_id].status = "Approved" /\ status = "Pending")
                     /\ ~failed => claims'[claim_id].status = status]_vars

\* a claim that had been Approved was moved to Rejected
C2_Witness ==
    /\ result.op = "update_claim_status"
    /\ result.outcome = "ok"
    /\ result.args[2] = "Rejected"
    /\ result.args[1] \in wasApproved

\* C3 as stated: a claim that update_claim_status has seen Approved is never
\* Pending afterwards.
C3_NeverPendingAfterApproved ==
    \A c \in wasApproved \cap DOMAIN claims : claims[c].status # "Pending"

\* C3 as amended: no single call of update_claim_status takes a claim from
\* Approved to Pending.
C3_NoDirectRevert ==
    [][result'.op = "update_claim_status"
         => \A c \in DOMAIN claims :
               claims[c].status = "Approved" => claims'[c].status # "Pending"]_vars

\* an Approved claim was asked to go back to Pending, and is still Approved
C3_Witness ==
    /\ result.op = "update_claim_status"
    /\ result.args[2] = "Pending"
    /\ result.args[1] \in DOMAIN claims
    /\ claims[result.args[1]].status = "Approved"

C6_RoundTrip ==
    (pc = "up" /\ file = SnapshotOf(policyholders, claims))
        => /\ LoadedPolicyholders(file) = policyholders
           /\ LoadedClaims(file) = claims

\* C7: once ingestion is over, every claim's policyholder_id is a key of
\* self.policyholders.
C7_ClaimsHaveOwners ==
    pc \in {"up", "replied"}
        => \A c \in DOMAIN claims : claims[c].policyholder_id \in DOMAIN policyholders

\* C8: the report lists a policyholder iff, among the claims whose
\* policyholder_id is its key, more than 3 are dated within the last 365 days,
\* or the Approved amounts exceed 0.8 of the sum insured, or more than 2 are
\* Rejected.
C8_HighRiskByKey ==
    get_high_risk_policyholders =
        {k \in DOMAIN policyholders :
            LET mine == {c \in DOMAIN claims : claims[c].policyholder_id = k}
                recent == {c \in mine : claims[c].date >= now - 365}
                rejected == {c \in mine : claims[c].status = "Rejected"}
                approved == {c \in mine : claims[c].status = "Approved"}
            IN  \/ Cardinality(recent) > 3
                \/ /\ policyholders[k].sum_insured > 0
                   /\ 5 * SumOf(claims, approved) > 4 * policyholders[k].sum_insured
                \/ Cardinality(rejected) > 2}

\* C9: what load_data finds at a start is a whole snapshot, so that the store
\* is the complete state after the latest write, or else the complete state
\* from before the write that failed.
C9_LoadSeesWholeSnapshot ==
    result.op = "load_data"
        => \/ /\ file.kind = "json"
              /\ policyholders = LoadedPolicyholders(file)
              /\ claims = LoadedClaims(file)
           \/ /\ policyholders = LoadedPolicyholders(prior)
              /\ claims = LoadedClaims(prior)

\* what C10 says the import does with a row
RowEffect(row) ==
    /\ row.CUSTOMER_ID \notin DOMAIN policyholders
         => /\ row.CUSTOMER_ID \in DOMAIN policyholders'
            /\ policyholders'[row.CUSTOMER_ID].sum_insured =
                   IF row.CLAIM_AMOUNT = "" THEN 100000 ELSE 2 * Float(row.CLAIM_AMOUNT)
    /\ \A k \in DOMAIN policyholders : policyholders'[k] = policyholders[k]
    /\ row.CLAIM_AMOUNT = "" => claims' = claims
    /\ row.CLAIM_AMOUNT # ""
         => /\ DOMAIN claims' = (DOMAIN claims) \cup {row.CLAIM_ID}
            /\ \A c \in (DOMAIN claims) \ {row.CLAIM_ID} : claims'[c] = claims[c]
            /\ claims'[row.CLAIM_ID].id = row.CLAIM_ID
            /\ claims'[row.CLAIM_ID].policyholder_id = row.CUSTOMER_ID
            /\ claims'[row.CLAIM_ID].status =
                   IF row.REJECTION_REMARKS # "" THEN "Rejected"
                   ELSE IF row.PAID_AMOUNT # "" THEN "Approved"
                   ELSE "Pending"

\* C10 as stated: every row the import reaches is processed that way.
C10_EveryRow ==
    [][result'.op = "load_csv_data" => RowEffect(result'.args)]_vars

\* C10 as amended: a row whose CLAIM_AMOUNT is empty, or is a number next to a
\* CLAIM_DATE in YYYY-MM-DD form, is processed that way and the import goes on.
\* Any other row ends the import without a claim for it: nothing is stored
\* when CLAIM_AMOUNT is not a number, and only the default policyholder is
\* stored when the date is malformed.
C10_ParsedRows ==
    [][result'.op = "load_csv_data"
         => LET row == result'.args
            IN  IF row.CLAIM_AMOUNT = ""
                   \/ (row.CLAIM_AMOUNT \in {"10", "50"} /\ row.CLAIM_DATE = "2024-06-01")
                THEN RowEffect(row) /\ pc' = "load_csv"
                ELSE /\ pc' = "up"
                     /\ claims' = claims
                     /\ file' = file
                     /\ IF row.CLAIM_AMOUNT \in {"10", "50"}
                        THEN DOMAIN policyholders' = (DOMAIN policyholders) \cup {row.CUSTOMER_ID}
                        ELSE policyholders' = policyholders]_vars

\* the second row of a CSV, with both a remark and a paid amount, replaced the
\* claim of the first row, which had created the customer
C10_Witness ==
    /\ result.op = "load_csv_data"
    /\ result.outcome = "ok"
    /\ result.args.REJECTION_REMARKS # ""
    /\ result.args.PAID_AMOUNT # ""
    /\ rowsRead = 2
    /\ DOMAIN claims = {result.args.CLAIM_ID}
    /\ claims[result.args.CLAIM_ID].status = "Rejected"
    /\ claims[result.args.CLAIM_ID].claim_amount = 50
    /\ policyholders[result.args.CUSTOMER_ID].sum_insured = 20

\* C11: every claim whose owner is in the store has an amount above 0 and at
\* most the owner's sum insured.
C11_AmountWithinSumInsured ==
    \A c \in DOMAIN claims :
        claims[c].policyholder_id \in DOMAIN policyholders
            => /\ 0 < claims[c].claim_amount
               /\ claims[c].claim_amount <=
                      policyholders[claims[c].policyholder_id].sum_insured

====
